---- MODULE Spec2Model ----
(***************************************************************************)
(* Model of lda2vec/corpus.py: the Corpus class (word counting, finalize,  *)
(* loose <-> compact remapping, count filtering) and fast_replace.         *)
(*                                                                         *)
(* Arrays are modelled flattened, as sequences of integers.  A dict is a   *)
(* sequence of <<key, value>> pairs in insertion order (CPython >= 3.7),   *)
(* because sorted(self.counts_loose.items()) reads it in that order.       *)
(* A call returns a record [err, val]: err = "none" and the returned array *)
(* in val, or the exception raised in err and no value.                    *)
(***************************************************************************)
EXTENDS Integers, Sequences, FiniteSets, TLC

VARIABLES
    corpus,          \* the Corpus instance under test (its attributes)
    other,           \* a second Corpus instance (used by SpecPair only)
    argsort_stable,  \* whether the default argsort of this numpy build keeps ties in order
    op,              \* method whose call on corpus has just returned, or "idle"
    arg,             \* array passed to the last call
    kw,              \* keyword arguments of the last call (filter_count)
    result,          \* what the last call returned or raised
    total            \* number of elements counted so far by update_word_count

vars == <<corpus, other, argsort_stable, op, arg, kw, result, total>>

-----------------------------------------------------------------------------
(* Bounds of the model *)

MaxLen == 2       \* longest array passed to any method
MaxTotal == 4     \* most elements counted into one Corpus

(* Program constants *)

OutOfVocabularyDefault == -2   \* __init__(self, out_of_vocabulary=-2)

(* Input values *)

LooseIds == {2, 3, 4}               \* identifiers fed to update_word_count
LooseVals == {0, 2, 3, 4, 99}       \* identifiers passed to to_compact (0, 99 never counted)
CompactVals == {-1, 0, 1, 2}        \* values passed to to_loose / filter_count
MinCounts == {0, 1, 2}
MaxCounts == {0, 2}
Replacements == {<<-4, -3>>}     \* <<max_replacement, min_replacement>>, told apart from the -1 of to_compact

SeqsUpTo(S, n) == UNION {[1..k -> S] : k \in 0..n}

-----------------------------------------------------------------------------
(* Exceptions *)

ErrNotFinalized == "AssertionError: self.finalized() must be called before any other array ops"
ErrFinalized == "AssertionError: Cannot update word counts after self.finalized()has been called"
ErrNotCompact == "AssertionError: Found keys in word_compact not present in the corpus."
ErrShape == "AssertionError: keys.shape != values.shape"
ErrDataMax == "AssertionError: data.max() <= keys.max()"
ErrValue == "ValueError: zero-size array to reduction operation maximum which has no identity"
ErrIndex == "IndexError"
ErrNotImplemented == "TypeError: exceptions must derive from BaseException"

Ok(v) == [err |-> "none", val |-> v]
Raise(e) == [err |-> e, val |-> <<>>]

-----------------------------------------------------------------------------
(* numpy / builtin helpers, computed as the library computes them *)

SetOf(a) == {a[i] : i \in DOMAIN a}

Max(S) == CHOOSE x \in S : \A y \in S : y <= x

RECURSIVE SumSeq(_)
SumSeq(s) == IF s = <<>> THEN 0 ELSE s[1] + SumSeq(Tail(s))

\* The indices 1..n listed in the total order before (a set of pairs <<j, i>>,
\* j placed ahead of i)
OrderOf(n, before) ==
    [p \in 1..n |-> CHOOSE i \in 1..n :
                        Cardinality({j \in 1..n : <<j, i>> \in before}) = p - 1]

Take(a, order) == [p \in DOMAIN order |-> a[order[p]]]

Reverse(a) == [p \in DOMAIN a |-> a[Len(a) + 1 - p]]

\* np.unique(a): the distinct values, ascending
np_unique(a) ==
    LET S == SetOf(a)
    IN  [p \in 1..Cardinality(S) |->
            CHOOSE x \in S : Cardinality({y \in S : y < x}) = p - 1]

\* return_counts=True
CountOf(a, k) == Cardinality({i \in DOMAIN a : a[i] = k})

\* np.setdiff1d(a, b, assume_unique=True): values of a not in b, in the order of a
np_setdiff1d(a, b) == SelectSeq(a, LAMBDA x : x \notin SetOf(b))

\* np.argsort(a), default kind (quicksort: ascending, order of equal elements
\* not specified; fixed for one build by argsort_stable)
np_argsort(a) ==
    OrderOf(Len(a), {ji \in (DOMAIN a) \X (DOMAIN a) :
        \/ a[ji[1]] < a[ji[2]]
        \/ a[ji[1]] = a[ji[2]] /\ (IF argsort_stable THEN ji[1] < ji[2] ELSE ji[1] > ji[2])})

\* sorted(items, key=lambda x: x[1], reverse=True): stable, descending by count
sorted_by_count_reverse(items) ==
    Take(items, OrderOf(Len(items), {ji \in (DOMAIN items) \X (DOMAIN items) :
        \/ items[ji[1]][2] > items[ji[2]][2]
        \/ items[ji[1]][2] = items[ji[2]][2] /\ ji[1] < ji[2]}))

\* np.digitize(x, bins, right=True) for ascending bins: the 0-based index i
\* with bins[i-1] < x <= bins[i]
np_digitize(x, bins) == Cardinality({j \in DOMAIN bins : bins[j] < x})

\* np.argmax(self.keys_counts < threshold): 0-based index of the first True,
\* 0 when there is none (keys_counts is never empty once finalize succeeded)
np_argmax_below(counts, threshold) ==
    LET hits == {i \in DOMAIN counts : counts[i] < threshold}
    IN  IF hits = {} THEN 0
        ELSE (CHOOSE i \in hits : \A j \in hits : i <= j) - 1

-----------------------------------------------------------------------------
(* fast_replace(data, keys, values, skip_checks=False) *)

fast_replace(data, keys, values, skip_checks) ==
    IF Len(keys) # Len(values) THEN Raise(ErrShape)
    ELSE IF ~skip_checks /\ (data = <<>> \/ keys = <<>>) THEN Raise(ErrValue)
    ELSE IF ~skip_checks /\ ~(Max(SetOf(data)) <= Max(SetOf(keys))) THEN Raise(ErrDataMax)
    ELSE
        LET sdx == np_argsort(keys)
            skeys == Take(keys, sdx)
            svalues == Take(values, sdx)
            idx == [i \in DOMAIN data |-> np_digitize(data[i], skeys)]
        IN  IF \E i \in DOMAIN idx : idx[i] >= Len(svalues) THEN Raise(ErrIndex)
            ELSE Ok([i \in DOMAIN data |-> svalues[idx[i] + 1]])

-----------------------------------------------------------------------------
(* class Corpus *)

EmptyDict == [k \in {} |-> 0]

\* __init__
CorpusInit(out_of_vocabulary) ==
    [counts_loose |-> <<>>,
     finalized |-> FALSE,
     out_of_vocabulary |-> out_of_vocabulary,
     keys_loose |-> <<>>,
     keys_compact |-> <<>>,
     keys_counts |-> <<>>,
     loose_to_compact |-> EmptyDict,
     compact_to_loose |-> EmptyDict]

\* mutant: the assertion compiled away
check_finalized_skipped(self) == TRUE

check_finalized(self) == self.finalized

\* mutant: the assertion compiled away
check_unfinalized_skipped(self) == TRUE

check_unfinalized(self) == ~self.finalized

\* mutant: self.counts_loose[k] = v
AddCountOverwrite(d, k, v) ==
    IF \E i \in DOMAIN d : d[i][1] = k
    THEN [i \in DOMAIN d |-> IF d[i][1] = k THEN <<k, v>> ELSE d[i]]
    ELSE Append(d, <<k, v>>)

\* self.counts_loose[k] += v on a defaultdict(int)
AddCount(d, k, v) ==
    IF \E i \in DOMAIN d : d[i][1] = k
    THEN [i \in DOMAIN d |-> IF d[i][1] = k THEN <<k, d[i][2] + v>> ELSE d[i]]
    ELSE Append(d, <<k, v>>)

\* for k, v in zip(uniques, counts): self.counts_loose[k] += v
RECURSIVE CountLoop(_, _, _, _)
CountLoop(d, uniques, loose_array, i) ==
    IF i > Len(uniques) THEN d
    ELSE CountLoop(AddCount(d, uniques[i], CountOf(loose_array, uniques[i])),
                   uniques, loose_array, i + 1)

update_word_count(self, loose_array) ==
    IF ~check_unfinalized(self)
    THEN [self |-> self, ret |-> Raise(ErrFinalized)]
    ELSE [self |-> [self EXCEPT !.counts_loose =
                        CountLoop(@, np_unique(loose_array), loose_array, 1)],
          ret |-> Ok(<<>>)]

\* _get_loose_keys_ordered: np.array(loose_counts)[:, 0] raises IndexError on
\* an empty list (a 1-d array of shape (0,))
get_loose_keys_ordered(self) ==
    IF self.counts_loose = <<>> THEN [err |-> ErrIndex, keys |-> <<>>, counts |-> <<>>]
    ELSE
        LET loose_counts == sorted_by_count_reverse(self.counts_loose)
            keys == [i \in DOMAIN loose_counts |-> loose_counts[i][1]]
            counts == [i \in DOMAIN loose_counts |-> loose_counts[i][2]]
            order == Reverse(np_argsort(counts))
        IN  [err |-> "none", keys |-> Take(keys, order), counts |-> Take(counts, order)]

finalize(self) ==
    LET ordered == get_loose_keys_ordered(self)
        n_keys == Len(ordered.keys)
        keys_compact == [i \in 1..n_keys |-> i - 1]
        loose_to_compact == [l \in SetOf(ordered.keys) |->
                                keys_compact[CHOOSE i \in 1..n_keys : ordered.keys[i] = l]]
        compact_to_loose == [c \in SetOf(keys_compact) |->
                                CHOOSE l \in DOMAIN loose_to_compact : loose_to_compact[l] = c]
    IN  IF ordered.err # "none"
        THEN [self |-> self, ret |-> Raise(ordered.err)]
        ELSE [self |-> [self EXCEPT !.keys_loose = ordered.keys,
                                    !.keys_compact = keys_compact,
                                    !.keys_counts = ordered.counts,
                                    !.loose_to_compact = loose_to_compact,
                                    !.compact_to_loose = compact_to_loose,
                                    !.finalized = TRUE],
              ret |-> Ok(<<>>)]

\* the key / replacement tables to_compact hands to fast_replace
to_compact_keys(self, word_loose) ==
    self.keys_loose \o np_setdiff1d(np_unique(word_loose), self.keys_loose)

to_compact_reps(self, word_loose) ==
    LET oov == np_setdiff1d(np_unique(word_loose), self.keys_loose)
    IN  self.keys_compact \o [i \in DOMAIN oov |-> 0 - 1]

to_compact(self, word_loose) ==
    IF ~check_finalized(self) THEN Raise(ErrNotFinalized)
    ELSE fast_replace(word_loose, to_compact_keys(self, word_loose),
                      to_compact_reps(self, word_loose), FALSE)

to_loose(self, word_compact) ==
    IF ~check_finalized(self) THEN Raise(ErrNotFinalized)
    ELSE
        LET oov == np_setdiff1d(np_unique(word_compact), self.keys_compact)
        IN  IF ~(\A i \in DOMAIN oov : oov[i] < 0) THEN Raise(ErrNotCompact)
            ELSE fast_replace(word_compact, self.keys_compact, self.keys_loose, FALSE)

\* ret[ret > min_idx] = min_replacement
ReplaceAbove(ret, idx, replacement) ==
    [i \in DOMAIN ret |-> IF ret[i] > idx THEN replacement ELSE ret[i]]

\* ret[ret < max_idx] = max_replacement
ReplaceBelow(ret, idx, replacement) ==
    [i \in DOMAIN ret |-> IF ret[i] < idx THEN replacement ELSE ret[i]]

filter_count(self, words_compact, min_count, max_count, max_replacement, min_replacement) ==
    IF ~check_finalized(self) THEN Raise(ErrNotFinalized)
    ELSE
        LET ret0 == words_compact
            ret1 == IF min_count # 0
                    THEN ReplaceAbove(ret0, np_argmax_below(self.keys_counts, min_count),
                                      min_replacement)
                    ELSE ret0
            ret2 == IF max_count # 0
                    THEN ReplaceBelow(ret1, np_argmax_below(self.keys_counts, max_count),
                                      max_replacement)
                    ELSE ret1
        IN  Ok(ret2)

\* raise NotImplemented
subsample_frequent(self, arr) ==
    IF ~check_finalized(self) THEN Raise(ErrNotFinalized)
    ELSE Raise(ErrNotImplemented)

-----------------------------------------------------------------------------
(* The state machine: one Corpus and the calls made on it *)

NoKw == [min_count |-> 0, max_count |-> 0, max_replacement |-> 0, min_replacement |-> 0]

FilterKw ==
    {[min_count |-> a, max_count |-> b, max_replacement |-> r[1], min_replacement |-> r[2]] :
        a \in MinCounts, b \in MaxCounts, r \in Replacements}

Init ==
    /\ corpus = CorpusInit(OutOfVocabularyDefault)
    /\ other = CorpusInit(OutOfVocabularyDefault)
    /\ argsort_stable \in BOOLEAN
    /\ op = "idle"
    /\ arg = <<>>
    /\ kw = NoKw
    /\ result = Ok(<<>>)
    /\ total = 0

UpdateWordCount ==
    \E loose_array \in SeqsUpTo(LooseIds, MaxLen) :
        LET r == update_word_count(corpus, loose_array)
        IN  /\ op = "idle"
            /\ corpus.finalized \/ total + Len(loose_array) <= MaxTotal
            /\ corpus' = r.self
            /\ result' = r.ret
            /\ total' = IF r.ret.err = "none" THEN total + Len(loose_array) ELSE total
            /\ op' = "update_word_count"
            /\ arg' = loose_array
            /\ kw' = NoKw
            /\ UNCHANGED <<other, argsort_stable>>

Finalize ==
    LET r == finalize(corpus)
    IN  /\ op = "idle"
        /\ corpus' = r.self
        /\ result' = r.ret
        /\ op' = "finalize"
        /\ arg' = <<>>
        /\ kw' = NoKw
        /\ UNCHANGED <<other, argsort_stable, total>>

ToCompact ==
    \E word_loose \in SeqsUpTo(LooseVals, MaxLen) :
        /\ op = "idle"
        /\ result' = to_compact(corpus, word_loose)
        /\ op' = "to_compact"
        /\ arg' = word_loose
        /\ kw' = NoKw
        /\ UNCHANGED <<corpus, other, argsort_stable, total>>

ToLoose ==
    \E word_compact \in SeqsUpTo(CompactVals, MaxLen) :
        /\ op = "idle"
        /\ result' = to_loose(corpus, word_compact)
        /\ op' = "to_loose"
        /\ arg' = word_compact
        /\ kw' = NoKw
        /\ UNCHANGED <<corpus, other, argsort_stable, total>>

FilterCount ==
    \E words_compact \in SeqsUpTo(CompactVals, MaxLen), k \in FilterKw :
        /\ op = "idle"
        /\ result' = filter_count(corpus, words_compact, k.min_count, k.max_count,
                                  k.max_replacement, k.min_replacement)
        /\ op' = "filter_count"
        /\ arg' = words_compact
        /\ kw' = k
        /\ UNCHANGED <<corpus, other, argsort_stable, total>>

SubsampleFrequent ==
    \E arr \in SeqsUpTo(CompactVals, MaxLen) :
        /\ op = "idle"
        /\ result' = subsample_frequent(corpus, arr)
        /\ op' = "subsample_frequent"
        /\ arg' = arr
        /\ kw' = NoKw
        /\ UNCHANGED <<corpus, other, argsort_stable, total>>

\* The call returns to its caller, which may then make the next call
Return ==
    /\ op # "idle"
    /\ op' = "idle"
    /\ arg' = <<>>
    /\ kw' = NoKw
    /\ result' = Ok(<<>>)
    /\ UNCHANGED <<corpus, other, argsort_stable, total>>

Next ==
    \/ UpdateWordCount
    \/ Finalize
    \/ ToCompact
    \/ ToLoose
    \/ FilterCount
    \/ SubsampleFrequent
    \/ Return

Spec == Init /\ [][Next]_vars

-----------------------------------------------------------------------------
(* Two Corpus instances side by side, each counted and finalized on its own *)

Counted(self) == SumSeq([i \in DOMAIN self.counts_loose |-> self.counts_loose[i][2]])

PairUpdateWordCount ==
    \E which \in {"corpus", "other"}, loose_array \in SeqsUpTo(LooseIds, MaxLen) :
        LET c == IF which = "corpus" THEN corpus ELSE other
            r == update_word_count(c, loose_array)
        IN  /\ ~c.finalized
            /\ Counted(c) + Len(loose_array) <= MaxTotal
            /\ corpus' = IF which = "corpus" THEN r.self ELSE corpus
            /\ other' = IF which = "other" THEN r.self ELSE other
            /\ total' = IF which = "corpus" THEN total + Len(loose_array) ELSE total
            /\ UNCHANGED <<argsort_stable, op, arg, kw, result>>

PairFinalize ==
    \E which \in {"corpus", "other"} :
        LET c == IF which = "corpus" THEN corpus ELSE other
            r == finalize(c)
        IN  /\ corpus' = IF which = "corpus" THEN r.self ELSE corpus
            /\ other' = IF which = "other" THEN r.self ELSE other
            /\ UNCHANGED <<argsort_stable, op, arg, kw, result, total>>

NextPair ==
    \/ PairUpdateWordCount
    \/ PairFinalize

SpecPair == Init /\ [][NextPair]_vars

-----------------------------------------------------------------------------
(* Properties *)

QueryOps == {"to_compact", "to_loose", "filter_count"}

\* the loose identifiers passed to update_word_count so far
CountedIds(self) == {self.counts_loose[i][1] : i \in DOMAIN self.counts_loose}

NonIncreasing(a) == \A i \in DOMAIN a : \A j \in DOMAIN a : i < j => a[i] >= a[j]

\* the smallest 0-based rank whose count is below threshold
FirstRankBelow(counts, threshold) ==
    CHOOSE r \in 0..(Len(counts) - 1) :
        /\ counts[r + 1] < threshold
        /\ \A q \in 0..(r - 1) : counts[q + 1] >= threshold

\* every element of out is the value paired with a key equal to the data element
ExactPairs(data, keys, values, out) ==
    /\ DOMAIN out = DOMAIN data
    /\ \A i \in DOMAIN data :
          \E j \in DOMAIN keys : keys[j] = data[i] /\ values[j] = out[i]

SamePairs(d1, d2) == SetOf(d1) = SetOf(d2)

\* C1: on a finalized Corpus, to_compact maps every occurrence of a loose
\* identifier that was never passed to update_word_count to the configured
\* out_of_vocabulary sentinel.
OovMapsToConfiguredSentinel ==
    (op = "to_compact" /\ result.err = "none") =>
        \A i \in DOMAIN arg :
            arg[i] \notin CountedIds(corpus) => result.val[i] = corpus.out_of_vocabulary

\* C2: a call in the wrong lifecycle phase is rejected and changes nothing:
\* update_word_count after finalize raises and leaves the count table and the
\* mapping tables as they were; to_compact, to_loose and filter_count before
\* finalize raise and return no result.
WrongPhaseRejected ==
    [][/\ (op = "idle" /\ op' = "update_word_count" /\ corpus.finalized) =>
            (result' = Raise(ErrFinalized) /\ corpus' = corpus)
       /\ (op = "idle" /\ op' \in QueryOps /\ ~corpus.finalized) =>
            (result' = Raise(ErrNotFinalized) /\ corpus' = corpus)]_vars

UpdateAfterFinalizeSeen ==
    /\ op = "update_word_count"
    /\ corpus.finalized
    /\ arg # <<>>
    /\ result.err = ErrFinalized

\* C3: round trip: after updates and finalize, for every array x whose
\* elements were all counted, to_loose(to_compact(x)) equals x element-wise.
RoundTripLaw ==
    (op = "to_compact" /\ corpus.finalized /\ SetOf(arg) \subseteq CountedIds(corpus)) =>
        /\ result.err = "none"
        /\ to_loose(corpus, result.val) = Ok(arg)

\* Supporting lemma for C3: the round trip does hold for every non-empty array
\* of counted identifiers.
RoundTripNonEmpty ==
    (/\ op = "to_compact"
     /\ corpus.finalized
     /\ arg # <<>>
     /\ SetOf(arg) \subseteq CountedIds(corpus)) =>
        /\ result.err = "none"
        /\ to_loose(corpus, result.val) = Ok(arg)

\* C4: filter_count with a non-zero min_count replaces by min_replacement every
\* compact identifier whose rank is >= the smallest rank whose count is below
\* min_count, and leaves every lower rank untouched.
MinCountReplacesFromFirstRankBelow ==
    (/\ op = "filter_count"
     /\ result.err = "none"
     /\ kw.min_count # 0
     /\ kw.max_count = 0
     /\ \E r \in DOMAIN corpus.keys_counts : corpus.keys_counts[r] < kw.min_count) =>
        \A i \in DOMAIN arg :
            arg[i] \in SetOf(corpus.keys_compact) =>
                result.val[i] =
                    IF arg[i] >= FirstRankBelow(corpus.keys_counts, kw.min_count)
                    THEN kw.min_replacement
                    ELSE arg[i]

\* C5: filter_count, for either side: when no rank has a count below the
\* non-zero threshold, that side replaces nothing, so an input array of valid
\* compact ids and negative sentinels comes back unchanged.
NoRankBelowThresholdNoReplacement ==
    (/\ op = "filter_count"
     /\ result.err = "none"
     /\ \A i \in DOMAIN arg : arg[i] < 0 \/ arg[i] \in SetOf(corpus.keys_compact)) =>
        /\ (/\ kw.min_count # 0
            /\ kw.max_count = 0
            /\ \A r \in DOMAIN corpus.keys_counts : corpus.keys_counts[r] >= kw.min_count) =>
                result.val = arg
        /\ (/\ kw.max_count # 0
            /\ kw.min_count = 0
            /\ \A r \in DOMAIN corpus.keys_counts : corpus.keys_counts[r] >= kw.max_count) =>
                result.val = arg

\* C6: after update_word_count calls and finalize, keys_counts is non-increasing
\* in rank order and its sum is the number of elements observed over all
\* updates.
KeysCountsSortedAndComplete ==
    corpus.finalized =>
        /\ NonIncreasing(corpus.keys_counts)
        /\ SumSeq(corpus.keys_counts) = total

AccumulatedCountsFinalized ==
    /\ corpus.finalized
    /\ op = "finalize"
    /\ Len(corpus.keys_counts) >= 2
    /\ corpus.keys_counts[1] > MaxLen
    /\ corpus.keys_counts[1] > corpus.keys_counts[2]

\* C7: once finalized, the instance stays finalized and every later call
\* leaves the count table, keys_loose, keys_compact, keys_counts,
\* loose_to_compact and compact_to_loose as they were.
FrozenAfterFinalize ==
    [][corpus.finalized => corpus' = corpus]_vars

QueryAfterFinalizeSeen ==
    /\ corpus.finalized
    /\ op = "to_loose"
    /\ result.err = "none"
    /\ Len(corpus.keys_loose) >= 2
    /\ corpus.keys_counts[1] = corpus.keys_counts[2]

\* C8: fast_replace never succeeds on a near match: whenever to_compact or
\* to_loose returns a result, each output element is the value paired with a
\* key exactly equal to the corresponding data element.
ReplaceOnlyOnExactMatch ==
    /\ (op = "to_loose" /\ result.err = "none") =>
            ExactPairs(arg, corpus.keys_compact, corpus.keys_loose, result.val)
    /\ (op = "to_compact" /\ result.err = "none") =>
            ExactPairs(arg, to_compact_keys(corpus, arg), to_compact_reps(corpus, arg),
                       result.val)

\* C9: two Corpus instances whose count tables hold the same (identifier,
\* count) pairs get the same keys_loose and loose_to_compact from finalize,
\* whatever the order and batching of the updates.
RankingDeterminedByCounts ==
    (/\ corpus.finalized
     /\ other.finalized
     /\ SamePairs(corpus.counts_loose, other.counts_loose)) =>
        /\ corpus.keys_loose = other.keys_loose
        /\ corpus.loose_to_compact = other.loose_to_compact

\* C10: finalize succeeds from every unfinalized state, the empty count table
\* included: it completes and sets the finalized flag.
FinalizeAlwaysSucceeds ==
    op = "finalize" => (result.err = "none" /\ corpus.finalized)

====
